---- MODULE Spec2Model ----
(***************************************************************************)
(* Server-side sessions of flask_session (sessions.py) as used by app.py:  *)
(* the ten session interfaces' open_session / save_session, run against a  *)
(* keyed store of records, with the client's cookie, the clock and the     *)
(* store's failures as the environment.                                    *)
(***************************************************************************)
EXTENDS Integers, Sequences, FiniteSets, TLC

VARIABLES cfg, store, now, nextSid, known, pc, sess, found, jar, last, twin,
          web, gone, mc

vars == <<cfg, store, now, nextSid, known, pc, sess, found, jar, last, twin,
          web, gone, mc>>

----------------------------------------------------------------------------
(* Bounds of the model *)

\* uuid4 is modelled as a counter that issues 1..MaxSid, each once
MaxSid == 1
\* the clock advances MaxTicks times
MaxTicks == 2
\* the Insult table holds at most MaxRows rows
MaxRows == 2
\* _get_memcache_timeout is called at most MaxCalls times at one clock reading
MaxCalls == 2
\* the latest reading of int(time.time()), seconds since the epoch
MaxEpoch == 1700000000

(* Program constants *)

\* app.config["PERMANENT_SESSION_LIFETIME"], seconds
Lifetime == 3600
\* the longest timeout memcached takes as relative: 60*60*24*30 seconds
ThirtyDays == 2592000
\* a null expiry column / a store without expiry
NoExpiry == -1
\* the sid a client makes up itself (never issued by _generate_sid)
ForgedSid == 0
\* request.remote_addr of the client, and the absent ip
ClientIp == 1
NoIp == 0

\* the instants the clock visits: 0, Lifetime, Lifetime + 1, 2 * Lifetime, ...
TimeAt(i) ==
    ((i + 1) \div 2) * Lifetime + (IF i > 0 /\ i % 2 = 0 THEN 1 ELSE 0)

----------------------------------------------------------------------------
(* Backends and their capabilities *)

Backends ==
    {"redis", "memcached", "filesystem", "mongodb", "sqlalchemy",
     "elasticsearch", "datastore", "firestore", "peewee", "dynamodb"}

\* save_session starts with "if not self.should_set_cookie(app, session): return"
GuardedBackends == {"redis", "memcached", "filesystem", "mongodb", "sqlalchemy"}

\* save_session looks the record up before it branches
PrefetchBackends == {"sqlalchemy", "datastore", "peewee"}

\* open_session compares a stored expiry with the clock and deletes lazily
ExpiryBackends ==
    {"mongodb", "sqlalchemy", "elasticsearch", "datastore", "firestore", "peewee"}

\* the store expires records itself (setex / cache timeout)
NativeTtlBackends == {"redis", "filesystem"}

\* the record has a uniqueness constraint on the session id column
UniqueBackends == {"sqlalchemy", "peewee"}

\* serializer of the interface: pickle, json, or none (the dict is stored as is)
SerializerOf(b) ==
    IF b = "dynamodb" THEN "json"
    ELSE IF b \in {"filesystem", "elasticsearch"} THEN "dict"
    ELSE "pickle"

----------------------------------------------------------------------------
(* The session mapping: a set of <<key, value>> pairs with distinct keys *)

UserKey == "k"
PermKey == "_permanent"
\* the value the handler of request r stores under UserKey
ValOf(r) == IF r = 1 THEN "v" ELSE "w"

Keys(m) == {p[1] : p \in m}
MapSet(m, k, v) == {p \in m : p[1] # k} \cup {<<k, v>>}
MapPop(m, k) == {p \in m : p[1] # k}

\* SessionMixin.permanent: self.get("_permanent", False)
IsPermanent(m) == <<PermKey, "True">> \in m

\* the entries of the mapping other than the permanence marker
UserData(m) == MapPop(m, PermKey)

\* a faulty variant: __init__ without its last statement, self.modified = False:
\* the flag stays as the assignment of self.permanent left it
NewSessionKeepsFlag(initial, sid, permanent, ip) ==
    [sid |-> sid,
     data |-> IF permanent THEN MapSet(initial, PermKey, "True") ELSE initial,
     modified |-> permanent,
     ip |-> ip]

\* ServerSideSession.__init__(initial, sid, permanent) (+ PeeweeSession's ip):
\* "if permanent: self.permanent = permanent" stores the marker (on_update
\* sets modified), then "self.modified = False"
NewSession(initial, sid, permanent, ip) ==
    [sid |-> sid,
     data |-> IF permanent THEN MapSet(initial, PermKey, "True") ELSE initial,
     modified |-> FALSE,
     ip |-> ip]

NoSession == [sid |-> -1, data |-> {}, modified |-> FALSE, ip |-> NoIp]

\* serializer.dumps(dict(session)) and serializer.loads(value)
Dumps(fmt, m) == [fmt |-> fmt, items |-> m]
CorruptBlob == [fmt |-> "garbage", items |-> {}]
LoadsOk(fmt, blob) == blob.fmt = fmt
Loads(fmt, blob) == blob.items

----------------------------------------------------------------------------
(* Cookies and signing: a cookie value is <<sid>> or <<sid, mac>> *)

NoCookie == <<>>
MacMod == 7
Mac(sid) == (3 * sid + 5) % MacMod
BadMac(sid) == (Mac(sid) + 1) % MacMod

\* Signer.sign(want_bytes(sid))
Sign(sid) == <<sid, Mac(sid)>>
\* a faulty variant: unsign that takes any signature for the right one
UnsignOkAnySignature(c) == Len(c) = 2

\* Signer.unsign(cookie) succeeds
UnsignOk(c) == Len(c) = 2 /\ c[2] = Mac(c[1])

\* the cookie value save_session sends
CookieFor(sid) == IF cfg.use_signer THEN Sign(sid) ELSE <<sid>>

AllSids == 0..MaxSid

\* what a client may send: nothing; a bare sid or a sid with a wrong signature,
\* the sid being one a Set-Cookie has sent or the one the client made up; or a
\* sid with the right signature, which only a Set-Cookie of a signing interface
\* provides (a uuid4 never sent is not guessed, a signature is not forged)
CookieInputs ==
    {NoCookie} \cup {<<s>> : s \in known \cup {ForgedSid}}
    \cup (IF cfg.use_signer
          THEN {<<s, Mac(s)>> : s \in known}
               \cup {<<s, BadMac(s)>> : s \in known \cup {ForgedSid}}
          ELSE {})

----------------------------------------------------------------------------
(* The store: for each key the records stored under it, oldest first *)

KeyPrefix == "session:"
StoreKey(sid) == <<KeyPrefix, sid>>
StoreKeys == {StoreKey(s) : s \in AllSids}

Row(blob, expiry, ip) == [data |-> blob, expiry |-> expiry, ip |-> ip]

\* query.filter_by(session_id=store_id).first() / get / find_one
HasRow(st, sid) == st[StoreKey(sid)] # <<>>
First(st, sid) == Head(st[StoreKey(sid)])

\* a faulty variant: a delete that leaves the record under the key in place
DeleteKeyKeepsRecord(st, sid) == st

\* delete of the record(s) under the key
DeleteKey(st, sid) == [st EXCEPT ![StoreKey(sid)] = <<>>]

\* set / setex / put_item / index / transaction.set: replace what is there
PutKey(st, sid, row) == [st EXCEPT ![StoreKey(sid)] = <<row>>]

\* saved_session.data = ...; commit: update the first record in place
UpdateFirst(st, sid, row) ==
    [st EXCEPT ![StoreKey(sid)] = <<row>> \o Tail(@)]

\* db.session.add(new_session) / Model.create: one more record under the key
InsertRow(st, sid, row) == [st EXCEPT ![StoreKey(sid)] = Append(@, row)]

\* a faulty variant: the session id column without its unique constraint
NoUniqueConstraint(st, sid) == FALSE

\* the unique constraint on session_id rejects a second record for the key
UniqueViolation(st, sid) == HasRow(st, sid)

\* a faulty variant: _delete_expired_sessions that deletes nothing
PurgeNothing(st, t) == st

\* _delete_expired_sessions: filter(expiry < utcnow()).delete()
PurgeExpired(st, t) ==
    [k \in DOMAIN st |->
        SelectSeq(st[k], LAMBDA r : ~(r.expiry # NoExpiry /\ r.expiry < t))]

\* the store's own expiry of records written with a time to live
NativeExpire(st, t) ==
    [k \in DOMAIN st |->
        SelectSeq(st[k], LAMBDA r : ~(r.expiry # NoExpiry /\ r.expiry <= t))]

----------------------------------------------------------------------------
(* Requests, responses and what the last handler did *)

Reqs == {1, 2}
\* the requests the sequential specification serves (one at a time)
SeqReqs == {1}

FailKinds == {"none", "purge", "fetch", "delete", "write"}

NoResp == [kind |-> "none", value |-> NoCookie, expires |-> NoExpiry]
NoJar == [cookie |-> NoCookie, sid |-> -1, payload |-> {}, at |-> -1]

\* the sids whose records differ between two stores
Changed(st1, st2) == {s \in AllSids : st1[StoreKey(s)] # st2[StoreKey(s)]}

\* the record of the last step: the handler, its request, the sid of its
\* session, the sid open_session took from the cookie (-1: none accepted),
\* whether the request carried the jar's cookie, the branch taken, the outcome,
\* the store operations issued, the sids whose records changed and the cookie
\* instruction put on the response; modified is the session's flag as
\* save_session found it (FALSE for every other step)
Done(op, r, sid, csid, fromJar, branch, ret, ops, changed, resp) ==
    [op |-> op, r |-> r, sid |-> sid, csid |-> csid, fromJar |-> fromJar,
     branch |-> branch, ret |-> ret, ops |-> ops, changed |-> changed,
     resp |-> resp, modified |-> FALSE]

Env(op, changed) == Done(op, 0, -1, -1, FALSE, op, "ok", {}, changed, NoResp)

\* Flask default of SESSION_REFRESH_EACH_REQUEST
RefreshEachRequest == TRUE

\* SessionInterface.should_set_cookie(app, session)
ShouldSetCookie(s) ==
    s.modified \/ (RefreshEachRequest /\ IsPermanent(s.data))

\* SessionInterface.get_expiration_time(app, session)
ExpirationTime(s, t) == IF IsPermanent(s.data) THEN t + Lifetime ELSE NoExpiry

----------------------------------------------------------------------------
(* open_session *)

OpenResult(ret, s, st, gen, branch, ops) ==
    [ret |-> ret, sess |-> s, store |-> st, gen |-> gen, branch |-> branch,
     ops |-> ops]

\* the cookie is present and, where the interface signs, its signature verifies
Accepted(cookie) == cookie # NoCookie /\ (cfg.use_signer => UnsignOk(cookie))

\* a faulty variant: _get_signer that never returns None
SignerMissingIgnored == FALSE

\* _get_signer returns None: "if not app.secret_key: return None", asked for
\* only where the interface signs
SignerMissing == cfg.use_signer /\ ~cfg.secret

\* "if self.autodelete: self._delete_expired_sessions()" (SQLAlchemy only)
Autodeletes == cfg.backend = "sqlalchemy" /\ cfg.autodelete

\* the ip the Peewee interface reads from the request; no other interface has one
RequestIp(ip) == IF cfg.backend = "peewee" THEN ip ELSE NoIp

\* the session of the bad-signature branch:
\* session_class(sid=sid, permanent=self.permanent), in Peewee too (ip left out)
BadSignatureSession(sid, ip) == NewSession({}, sid, cfg.permanent, NoIp)

\* a faulty variant: the no-cookie branch without _generate_sid: a fixed sid is reused
NoCookieSessionReused(sid, ip) ==
    NewSession({}, ForgedSid, cfg.permanent, RequestIp(ip))

\* the session of the no-cookie branch
NoCookieSession(sid, ip) == NewSession({}, sid, cfg.permanent, RequestIp(ip))

\* the comparison of the stored expiry with the clock raises (None <= datetime)
ExpiryCompareRaises(row) ==
    cfg.backend \in (ExpiryBackends \ {"sqlalchemy"}) /\ row.expiry = NoExpiry

\* open_session reads the server's local clock, datetime.now(), where the
\* expiry was computed from UTC: Datastore always, Peewee "if self.permanent
\* else datetime.now()"
ReadsLocalClock ==
    cfg.backend = "datastore" \/ (cfg.backend = "peewee" /\ ~cfg.permanent)

\* the time open_session compares the stored expiry with, t being UTC
CompareDate(t) == IF ReadsLocalClock THEN t + cfg.utcoffset ELSE t

\* a faulty variant: the comparison without "not saved_session.expiry or": a
\* record with a null expiry is kept
IsExpiredNullKept(row, t) ==
    /\ cfg.backend \in ExpiryBackends
    /\ row.expiry # NoExpiry /\ row.expiry <= CompareDate(t)

\* the record counts as expired at time t
IsExpired(row, t) ==
    /\ cfg.backend \in ExpiryBackends
    /\ \/ (cfg.backend = "sqlalchemy" /\ row.expiry = NoExpiry)
       \/ (row.expiry # NoExpiry /\ row.expiry <= CompareDate(t))

\* a faulty variant: a lazy delete without its filter: every record goes
DeleteFoundWipesTable(st, sid) == [k \in DOMAIN st |-> <<>>]

\* the lazy delete of an expired record
DeleteFound(st, sid) ==
    IF cfg.backend = "sqlalchemy"
    THEN [st EXCEPT ![StoreKey(sid)] = Tail(@)]
    ELSE DeleteKey(st, sid)

\* a faulty variant: the "except:" branch generating a new sid, as the bad-signature
\* branch does
DeserializeFailedNewSid(sid, ip) ==
    NewSession({}, nextSid, cfg.permanent, RequestIp(ip))

\* the session of the "except:" branch around serializer.loads
DeserializeFailed(sid, ip) == NewSession({}, sid, cfg.permanent, RequestIp(ip))

\* a faulty variant: the last return of open_session generating a new sid, as
\* the no-cookie branch does
NoRecordSessionNewSid(sid, ip) ==
    NewSession({}, nextSid, cfg.permanent, RequestIp(ip))

\* the session of the last return of open_session, reached when the store has
\* no record under the key: session_class(sid=sid, permanent=self.permanent)
NoRecordSession(sid, ip) == NewSession({}, sid, cfg.permanent, RequestIp(ip))

\* the part of open_session after the cookie's sid is accepted
LookupSession(sid, ip, st, fail, ops0) ==
    LET fmt == SerializerOf(cfg.backend)
        ops1 == ops0 \cup {"fetch"}
        empty == NewSession({}, sid, cfg.permanent, RequestIp(ip))
    IN  IF fail = "fetch"
        THEN OpenResult("raised", NoSession, st, FALSE, "fetch_error", ops1)
        ELSE IF ~HasRow(st, sid)
        THEN OpenResult("session", NoRecordSession(sid, ip), st, FALSE, "norecord",
                        ops1)
        ELSE LET row == First(st, sid) IN
             IF ExpiryCompareRaises(row)
             THEN OpenResult("raised", NoSession, st, FALSE, "expiry_error", ops1)
             ELSE IF IsExpired(row, now)
             THEN IF fail = "delete"
                  THEN OpenResult("raised", NoSession, st, FALSE, "delete_error",
                                  ops1 \cup {"delete"})
                  ELSE OpenResult("session", empty, DeleteFound(st, sid), FALSE,
                                  "expired", ops1 \cup {"delete"})
             ELSE IF LoadsOk(fmt, row.data)
             THEN OpenResult("session",
                             NewSession(Loads(fmt, row.data), sid, FALSE, RequestIp(ip)),
                             st, FALSE, "loaded", ops1)
             ELSE OpenResult("session", DeserializeFailed(sid, ip), st, FALSE,
                             "corrupt", ops1)

OpenSession(cookie, ip, fail) ==
    LET st1 == IF Autodeletes THEN PurgeExpired(store, now) ELSE store
        ops0 == IF Autodeletes THEN {"purge"} ELSE {}
    IN  IF Autodeletes /\ fail = "purge"
        THEN OpenResult("raised", NoSession, store, FALSE, "purge_error", ops0)
        ELSE IF cookie = NoCookie
        THEN OpenResult("session", NoCookieSession(nextSid, ip), st1, TRUE,
                        "nocookie", ops0)
        ELSE IF SignerMissing
        THEN OpenResult("null", NoSession, st1, FALSE, "nosigner", ops0)
        ELSE IF cfg.use_signer /\ ~UnsignOk(cookie)
        THEN OpenResult("session", BadSignatureSession(nextSid, ip), st1, TRUE,
                        "badsig", ops0)
        ELSE LookupSession(cookie[1], ip, st1, fail, ops0)

Open(r) ==
    /\ pc[r] = "idle"
    /\ \E cookie \in CookieInputs, fail \in FailKinds :
        LET res == OpenSession(cookie, ClientIp, fail) IN
        /\ res.gen => nextSid <= MaxSid
        /\ store' = res.store
        /\ nextSid' = IF res.gen THEN nextSid + 1 ELSE nextSid
        /\ pc' = [pc EXCEPT ![r] = IF res.ret = "session" THEN "handling" ELSE "idle"]
        /\ sess' = [sess EXCEPT ![r] = res.sess]
        /\ jar' = IF cookie = jar.cookie THEN jar ELSE NoJar
        /\ last' = Done("open", r, res.sess.sid,
                        IF Accepted(cookie) THEN cookie[1] ELSE -1,
                        jar # NoJar /\ cookie = jar.cookie,
                        res.branch, res.ret, res.ops, Changed(store, res.store),
                        NoResp)
        /\ UNCHANGED <<mc, gone, web, twin, cfg, known, now, found>>

----------------------------------------------------------------------------
(* The handler's use of the session mapping (CallbackDict: on_update sets modified) *)

SetKey(r) ==
    /\ pc[r] = "handling"
    /\ sess' = [sess EXCEPT ![r].data = MapSet(@, UserKey, ValOf(r)),
                            ![r].modified = TRUE]
    /\ jar' = NoJar
    /\ last' = Done("set", r, sess[r].sid, -1, FALSE, "set", "ok", {}, {}, NoResp)
    /\ UNCHANGED <<mc, gone, web, twin, cfg, known, store, now, nextSid, pc, found>>

PopKey(r) ==
    /\ pc[r] = "handling"
    /\ UserKey \in Keys(sess[r].data)
    /\ sess' = [sess EXCEPT ![r].data = MapPop(@, UserKey), ![r].modified = TRUE]
    /\ jar' = NoJar
    /\ last' = Done("pop", r, sess[r].sid, -1, FALSE, "pop", "ok", {}, {}, NoResp)
    /\ UNCHANGED <<mc, gone, web, twin, cfg, known, store, now, nextSid, pc, found>>

Clear(r) ==
    /\ pc[r] = "handling"
    /\ sess' = [sess EXCEPT ![r].data = {}, ![r].modified = TRUE]
    /\ jar' = NoJar
    /\ last' = Done("clear", r, sess[r].sid, -1, FALSE, "clear", "ok", {}, {}, NoResp)
    /\ UNCHANGED <<mc, gone, web, twin, cfg, known, store, now, nextSid, pc, found>>

----------------------------------------------------------------------------
(* save_session *)

SaveResult(ret, st, cookie, branch, ops) ==
    [ret |-> ret, store |-> st, resp |-> cookie, branch |-> branch, ops |-> ops]

\* response.delete_cookie(name, domain, path)
DeleteCookie == [kind |-> "delete", value |-> NoCookie, expires |-> 0]

\* response.set_cookie(name, session_id, expires=expires, ...)
SetCookie(sid, expires) ==
    [kind |-> "set", value |-> CookieFor(sid), expires |-> expires]

\* the interface checks should_set_cookie before anything else
ChecksShouldSetCookie == cfg.backend \in GuardedBackends

\* PeeweeSessionInterface._get_expire raises: get_expiration_time gave None
GetExpireRaises(s) ==
    cfg.backend = "peewee" /\ cfg.permanent /\ ~IsPermanent(s.data)

\* the expiry save_session stores with the record
StoredExpiry(s, t) ==
    CASE cfg.backend \in {"redis", "filesystem"} -> t + Lifetime
      [] cfg.backend \in {"memcached", "dynamodb"} -> NoExpiry
      [] cfg.backend = "peewee" -> t + Lifetime
      [] OTHER -> ExpirationTime(s, t)

\* the expires attribute of the cookie
CookieExpires(s, t) ==
    IF cfg.backend = "peewee" THEN t + Lifetime ELSE ExpirationTime(s, t)

\* the Redis interface writes only "if session.permanent"
WritesRecord(s) == cfg.backend = "redis" => IsPermanent(s.data)

\* a faulty variant: a write that removes the record it finds under the key
\* instead of replacing it
WriteRecordDropsFound(st, sid, row, saved) ==
    IF HasRow(st, sid)
    THEN [ret |-> "ok", store |-> DeleteKey(st, sid)]
    ELSE [ret |-> "ok", store |-> PutKey(st, sid, row)]

\* the write of the record; saved is what the earlier lookup found
\* (a result of "raised" is the store's own refusal of the write)
WriteRecord(st, sid, row, saved) ==
    CASE cfg.backend \in UniqueBackends ->
            IF saved
            THEN IF HasRow(st, sid)
                 THEN [ret |-> "ok", store |-> UpdateFirst(st, sid, row)]
                 ELSE IF cfg.backend = "sqlalchemy"
                      THEN [ret |-> "raised", store |-> st]
                      ELSE [ret |-> "ok", store |-> st]
            ELSE IF UniqueViolation(st, sid)
                 THEN [ret |-> "raised", store |-> st]
                 ELSE [ret |-> "ok", store |-> InsertRow(st, sid, row)]
      [] cfg.backend = "mongodb" ->
            IF HasRow(st, sid)
            THEN [ret |-> "ok", store |-> UpdateFirst(st, sid, row)]
            ELSE [ret |-> "ok", store |-> InsertRow(st, sid, row)]
      [] OTHER -> [ret |-> "ok", store |-> PutKey(st, sid, row)]

\* a faulty variant: set_cookie placed before the write: the cookie is on the response
\* when the write raises
FailedWriteAfterCookie(st, cookie, branch) ==
    SaveResult("raised", st, cookie, branch, {"write"})

\* the write raised: the exception leaves save_session before set_cookie
FailedWrite(st, cookie, branch) ==
    SaveResult("raised", st, NoResp, branch, {"write"})

\* a faulty variant: the "if not session:" branch without the delete of the record
SaveEmptyKeepsRecord(s, st, saved, fail) ==
    IF ~s.modified
    THEN SaveResult("ok", st, NoResp, "empty", {})
    ELSE SaveResult("ok", st, DeleteCookie, "delete", {})

\* "if not session:" branch
SaveEmpty(s, st, saved, fail) ==
    LET deletes == IF cfg.backend \in PrefetchBackends THEN saved ELSE TRUE
        ops == IF deletes THEN {"delete"} ELSE {}
    IN  IF ~s.modified
        THEN SaveResult("ok", st, NoResp, "empty", {})
        ELSE IF deletes /\ fail = "delete"
        THEN SaveResult("raised", st, NoResp, "delete_error", ops)
        ELSE SaveResult("ok", IF deletes THEN DeleteKey(st, s.sid) ELSE st,
                        DeleteCookie, "delete", ops)

\* a faulty variant: the found entity is always updated and put
DatastoreDropsNever(s, saved) == FALSE

\* GoogleCloudDatastoreSessionInterface.save_session, "if saved_session:"
\* "if not expires:": the entity is deleted and save_session returns
DatastoreDrops(s, saved) ==
    cfg.backend = "datastore" /\ saved /\ ExpirationTime(s, now) = NoExpiry

\* the rest of save_session: serialize, write, sign, set the cookie
SaveData(s, st, saved, fail) ==
    LET fmt == SerializerOf(cfg.backend)
        row == Row(Dumps(fmt, s.data), StoredExpiry(s, now),
                   IF cfg.backend = "peewee" THEN s.ip ELSE NoIp)
        cookie == SetCookie(s.sid, CookieExpires(s, now))
    IN  IF GetExpireRaises(s)
        THEN SaveResult("raised", st, NoResp, "expire_error", {})
        ELSE IF DatastoreDrops(s, saved)
        THEN IF fail = "delete"
             THEN SaveResult("raised", st, NoResp, "delete_error", {"delete"})
             ELSE SaveResult("ok", DeleteKey(st, s.sid), NoResp, "dropped", {"delete"})
        ELSE IF ~WritesRecord(s)
        THEN IF SignerMissing
             THEN SaveResult("raised", st, NoResp, "sign_error", {})
             ELSE SaveResult("ok", st, cookie, "cookie_only", {})
        ELSE IF fail = "write"
        THEN FailedWrite(st, cookie, "write_error")
        ELSE LET w == WriteRecord(st, s.sid, row, saved) IN
             IF w.ret = "raised"
             THEN FailedWrite(st, cookie, "write_refused")
             ELSE IF SignerMissing
             THEN SaveResult("raised", w.store, NoResp, "sign_error", {"write"})
             ELSE SaveResult("ok", w.store, cookie, "written", {"write"})

\* a faulty variant: save_session without its "if not session:" branch
SaveBodyWritesEmpty(s, st, saved, fail) == SaveData(s, st, saved, fail)

\* save_session after the should_set_cookie check and the lookup
SaveBody(s, st, saved, fail) ==
    IF s.data = {} THEN SaveEmpty(s, st, saved, fail) ELSE SaveData(s, st, saved, fail)

\* the ops of the lookup are added to those of the body
WithOps(res, ops) == [res EXCEPT !.ops = @ \cup ops]

\* the whole of save_session against the store st, the lookup and the write
\* in one step
SaveSessionOn(st, s, fail) ==
    IF ChecksShouldSetCookie /\ ~ShouldSetCookie(s)
    THEN SaveResult("ok", st, NoResp, "noop", {})
    ELSE IF cfg.backend \in PrefetchBackends
    THEN IF fail = "fetch"
         THEN SaveResult("raised", st, NoResp, "fetch_error", {"fetch"})
         ELSE WithOps(SaveBody(s, st, HasRow(st, s.sid), fail), {"fetch"})
    ELSE SaveBody(s, st, FALSE, fail)

\* save_session against the store as it is
SaveSession(s, fail) == SaveSessionOn(store, s, fail)

\* the sids whose record a save_session removed on its "if not session:" /
\* "if session.modified:" path and for which no save_session has written a
\* record since
GoneAfter(g, sid, res) ==
    IF res.ret = "ok" /\ res.branch = "delete" /\ "delete" \in res.ops
    THEN g \cup {sid}
    ELSE IF res.branch = "written" THEN g \ {sid}
    ELSE g

\* what the client keeps of the response
JarAfter(s, res) ==
    IF res.resp.kind = "set"
    THEN [cookie |-> res.resp.value, sid |-> s.sid, payload |-> s.data, at |-> now]
    ELSE NoJar

Finish(r, s, res) ==
    /\ store' = res.store
    /\ jar' = JarAfter(s, res)
    /\ pc' = [pc EXCEPT ![r] = "idle"]
    /\ sess' = [sess EXCEPT ![r] = NoSession]
    /\ found' = [found EXCEPT ![r] = FALSE]
    /\ last' = [Done("save", r, s.sid, -1, FALSE, res.branch, res.ret, res.ops,
                     Changed(store, res.store), res.resp)
                    EXCEPT !.modified = s.modified]
    /\ known' = IF res.resp.kind = "set" THEN known \cup {s.sid} ELSE known
    /\ gone' = GoneAfter(gone, s.sid, res)
    /\ UNCHANGED <<mc, web, twin, cfg, now, nextSid>>

Save(r) ==
    /\ pc[r] = "handling"
    /\ \E fail \in FailKinds : Finish(r, sess[r], SaveSession(sess[r], fail))

----------------------------------------------------------------------------
(* The environment: the clock, and a record whose stored bytes no longer load *)

Tick ==
    /\ \E i \in 0..(MaxTicks - 1) : now = TimeAt(i) /\ now' = TimeAt(i + 1)
    /\ store' = IF cfg.backend \in NativeTtlBackends
                THEN NativeExpire(store, now') ELSE store
    /\ last' = Env("tick", Changed(store, store'))
    /\ UNCHANGED <<mc, gone, web, twin, cfg, known, nextSid, pc, sess, found, jar>>

Corrupt ==
    /\ \E sid \in AllSids :
        /\ HasRow(store, sid)
        /\ First(store, sid).data # CorruptBlob
        /\ store' = [store EXCEPT ![StoreKey(sid)] =
                        <<[Head(@) EXCEPT !.data = CorruptBlob]>> \o Tail(@)]
    /\ jar' = NoJar
    /\ last' = Env("corrupt", Changed(store, store'))
    /\ UNCHANGED <<mc, gone, web, twin, cfg, known, now, nextSid, pc, sess, found>>

----------------------------------------------------------------------------
(* app.py: the application objects, the File and Insult tables, the routes *)

\* a column value: SQL NULL (Python None) or a string, a sequence of characters
Null == [null |-> TRUE, val |-> <<>>]
Str(s) == [null |-> FALSE, val |-> s]

\* str.split(","): the pieces between the commas; "" gives [""]
RECURSIVE Split(_)
Split(s) ==
    IF \A i \in 1..Len(s) : s[i] # ","
    THEN <<s>>
    ELSE LET i == CHOOSE j \in 1..Len(s) :
                      s[j] = "," /\ \A k \in 1..(j - 1) : s[k] # ","
         IN <<SubSeq(s, 1, i - 1)>> \o Split(SubSeq(s, i + 1, Len(s)))

\* ",".join(parts)
RECURSIVE Join(_)
Join(parts) ==
    IF Len(parts) = 0 THEN <<>>
    ELSE IF Len(parts) = 1 THEN parts[1]
    ELSE parts[1] \o <<",">> \o Join(Tail(parts))

\* the stored values of Insult.tags the model draws from
TagValues ==
    {Null, Str(<<>>), Str(<<"a">>), Str(<<"a", ",", "b">>),
     Str(<<"a", ",", "b", ",", "c">>), Str(<<",">>), Str(<<"a", ",">>)}

\* rows of the Insult table (the columns the route reads)
InsultRows ==
    [insult : {"w1", "w2"}, definition : {"d"}, sourceName : {"n"},
     sourceUrl : {"u"}, tags : TagValues]

RECURSIVE SeqsUpTo(_, _)
SeqsUpTo(S, n) ==
    IF n = 0 THEN {<<>>}
    ELSE LET shorter == SeqsUpTo(S, n - 1)
         IN shorter \cup {Append(q, x) : q \in {t \in shorter : Len(t) = n - 1},
                                         x \in S}

\* the contents of the Insult table, in the order Insult.query.all() returns
InsultTables == SeqsUpTo(InsultRows, MaxRows)

\* rows of the File table
FileRows == [name : {"insults.json", "other.bin"}, contents : {"blob1", "blob2"}]
FileTables == SUBSET FileRows

\* Flask(__name__): a new application object with Flask's own cookie session
\* interface and no routes; the name app is bound to it
NewApp(w) ==
    LET id == Len(w.apps) + 1
    IN [w EXCEPT !.apps = Append(w.apps, [iface |-> "securecookie", routes |-> {},
                                          errorhandler |-> FALSE]),
                 !.bound = id]

\* Session(app): the interface SESSION_TYPE names becomes the session
\* interface of the application object the name app is bound to
InstallSession(w) ==
    [w EXCEPT !.apps[w.bound].iface = "sqlalchemy"]

\* @app.route(path)
AddRoute(w, path) ==
    [w EXCEPT !.apps[w.bound].routes = @ \cup {path}]

\* @app.errorhandler(werkzeug.exceptions.HTTPException)
AddErrorHandler(w) ==
    [w EXCEPT !.apps[w.bound].errorhandler = TRUE]

NoResponse == [status |-> 0, kind |-> "none", body |-> <<>>]

\* app.py run top to bottom, with the tables as the database holds them
AppLoaded(files, rows) ==
    LET blank == [apps |-> <<>>, bound |-> 0, File |-> files, Insult |-> rows,
                  req |-> "none", via |-> "none", resp |-> NoResponse,
                  read |-> {}]
        first == InstallSession(NewApp(blank))
        second == NewApp(first)
    IN AddErrorHandler(
           AddRoute(AddRoute(AddRoute(second, "/"), "/aleatori"), "/insults"))

\* the application object the server runs: the one the name app is bound to
ServingApp(w) == w.apps[w.bound]

\* render_template(name)
render_template(name, code) == [status |-> code, kind |-> "html", body |-> name]

\* a view's return value of type bytes becomes the body of the response
BytesResponse(b) == [status |-> 200, kind |-> "bytes", body |-> b]

\* jsonify(value): a response whose body is the JSON document of value
jsonify(value) == [status |-> 200, kind |-> "json", body |-> value]

\* an exception that is not an HTTPException leaves the view
Raised(exc) == [status |-> 500, kind |-> "raised", body |-> exc]

\* the object the route builds for one Insult row
InsultObject(row) ==
    [definicio |-> row.definition,
     font |-> [nom |-> row.sourceName, url |-> row.sourceUrl],
     paraula |-> row.insult,
     tags |-> Split(row.tags.val)]

\* a faulty variant: the route never looks for the cached File row
insultsSkipsCache(w) ==
    IF \E i \in 1..Len(w.Insult) : w.Insult[i].tags.null
    THEN {[resp |-> Raised("AttributeError"), read |-> {"files", "insults"}]}
    ELSE {[resp |-> jsonify([i \in 1..Len(w.Insult) |-> InsultObject(w.Insult[i])]),
           read |-> {"files", "insults"}]}

\* insults(): the outcomes of the view, each the response and the tables read
\* (first() without an ORDER BY returns any one of the matching rows)
insults(w) ==
    LET cached == {f \in w.File : f.name = "insults.json"}
    IN IF cached # {}
       THEN {[resp |-> BytesResponse(f.contents), read |-> {"files"}] : f \in cached}
       ELSE IF \E i \in 1..Len(w.Insult) : w.Insult[i].tags.null
       THEN {[resp |-> Raised("AttributeError"), read |-> {"files", "insults"}]}
       ELSE {[resp |-> jsonify([i \in 1..Len(w.Insult) |->
                                    InsultObject(w.Insult[i])]),
              read |-> {"files", "insults"}]}

\* what a request leaves the session model: the views never touch the session
\* and the serving application's session interface keeps no records
sessionVars ==
    <<cfg, store, now, nextSid, known, pc, sess, found, jar, last, twin, gone,
      mc>>

\* a request served by the application object the server runs
Served(path, out) ==
    [web EXCEPT !.req = path, !.via = ServingApp(web).iface,
                !.resp = out.resp, !.read = out.read]

GetIndex ==
    /\ "/" \in ServingApp(web).routes
    /\ web' = Served("/", [resp |-> render_template("index.html", 200), read |-> {}])
    /\ UNCHANGED sessionVars

GetAleatori ==
    /\ "/aleatori" \in ServingApp(web).routes
    /\ web' = Served("/aleatori",
                     [resp |-> render_template("aleatori.html", 200), read |-> {}])
    /\ UNCHANGED sessionVars

GetInsults ==
    /\ "/insults" \in ServingApp(web).routes
    /\ \E out \in insults(web) : web' = Served("/insults", out)
    /\ UNCHANGED sessionVars

\* the HTTPExceptions the routing raises: NotFound, MethodNotAllowed
NotFound == [code |-> 404]
MethodNotAllowed == [code |-> 405]

\* str(n) of a non-negative int: its decimal digits
DigitChar(d) == <<"0", "1", "2", "3", "4", "5", "6", "7", "8", "9">>[d + 1]
RECURSIVE str(_)
str(n) == IF n < 10 THEN <<DigitChar(n)>> ELSE Append(str(n \div 10), DigitChar(n % 10))

\* a faulty variant: the handler answers every HTTPException with status 404
errorAlwaysNotFound(e) ==
    [render_template("404.html", 404) EXCEPT !.body = <<"404.html", str(e.code)>>]

\* error(e): render_template('404.html', error = str(e.code)), e.code; the
\* body is the template and the value of its variable error
error(e) ==
    [render_template("404.html", e.code) EXCEPT !.body = <<"404.html", str(e.code)>>]

\* a path without a route: NotFound, an HTTPException, reaches error(e)
GetUnrouted ==
    /\ ServingApp(web).errorhandler
    /\ web' = Served("/unrouted", [resp |-> error(NotFound), read |-> {}])
    /\ UNCHANGED sessionVars

\* a method the route does not accept (the routes take GET only):
\* MethodNotAllowed reaches error(e)
PostIndex ==
    /\ "/" \in ServingApp(web).routes
    /\ ServingApp(web).errorhandler
    /\ web' = Served("POST /", [resp |-> error(MethodNotAllowed), read |-> {}])
    /\ UNCHANGED sessionVars

----------------------------------------------------------------------------
(* The sequential specification: whole handlers, one request at a time *)

\* the offsets of the server's local time from UTC: none, or one hour ahead
UtcOffsets == {0, Lifetime}

\* the settings of a deployment; secret: app.secret_key is set
Settings ==
    {c \in [backend : Backends, use_signer : BOOLEAN, permanent : BOOLEAN,
            autodelete : BOOLEAN, utcoffset : UtcOffsets, secret : BOOLEAN] :
        /\ c.autodelete => c.backend = "sqlalchemy"
        /\ c.utcoffset # 0 =>
              (c.backend = "datastore" \/ (c.backend = "peewee" /\ ~c.permanent))}

\* the deployments with a secret key, as app.py sets one (line 14)
Configs == {c \in Settings : c.secret}

\* no second deployment is run alongside
NoTwin == [phase |-> "none"]

\* int(time.time()) when the interface is constructed, no call made yet
NoCalls == [epoch |-> 0, calls |-> <<>>]

InitWith(cs) ==
    /\ twin = NoTwin
    /\ cfg \in cs
    /\ store = [k \in StoreKeys |-> <<>>]
    /\ now = 0
    /\ nextSid = 1
    /\ known = {}
    /\ pc = [r \in Reqs |-> "idle"]
    /\ sess = [r \in Reqs |-> NoSession]
    /\ found = [r \in Reqs |-> FALSE]
    /\ jar = NoJar
    /\ last = Env("init", {})
    /\ gone = {}
    /\ mc = NoCalls

Init == InitWith(Configs) /\ web = AppLoaded({}, <<>>)

Next ==
    \/ \E r \in SeqReqs : Open(r)
    \/ \E r \in SeqReqs : SetKey(r)
    \/ \E r \in SeqReqs : PopKey(r)
    \/ \E r \in SeqReqs : Clear(r)
    \/ \E r \in SeqReqs : Save(r)
    \/ Tick
    \/ Corrupt

Spec == Init /\ [][Next]_vars

----------------------------------------------------------------------------
(* The concurrent specification: two requests at once against a relational    *)
(* store (SQLAlchemy, Peewee), whose save_session is two round trips: the     *)
(* lookup of the record, then the delete, update or insert                    *)

\* save_session up to and including the lookup
SaveQuery(r) ==
    /\ pc[r] = "handling"
    /\ IF ChecksShouldSetCookie /\ ~ShouldSetCookie(sess[r])
       THEN Finish(r, sess[r], SaveResult("ok", store, NoResp, "noop", {}))
       ELSE \/ Finish(r, sess[r],
                      SaveResult("raised", store, NoResp, "fetch_error", {"fetch"}))
            \/ /\ found' = [found EXCEPT ![r] = HasRow(store, sess[r].sid)]
               /\ pc' = [pc EXCEPT ![r] = "saving"]
               /\ jar' = NoJar
               /\ last' = Done("query", r, sess[r].sid, -1, FALSE, "query", "ok",
                               {"fetch"}, {}, NoResp)
               /\ UNCHANGED <<mc, gone, web, twin, cfg, known, store, now, nextSid, sess>>

\* save_session after the lookup
SaveWrite(r) ==
    /\ pc[r] = "saving"
    /\ \E fail \in {"none", "delete", "write"} :
        Finish(r, sess[r], WithOps(SaveBody(sess[r], store, found[r], fail), {"fetch"}))

ConcConfigs ==
    {c \in Configs :
        c.backend \in UniqueBackends /\ ~c.autodelete /\ c.utcoffset = 0}

InitConc == InitWith(ConcConfigs) /\ web = AppLoaded({}, <<>>)

NextConc ==
    \/ \E r \in Reqs : Open(r)
    \/ \E r \in Reqs : SetKey(r)
    \/ \E r \in Reqs : Clear(r)
    \/ \E r \in Reqs : SaveQuery(r)
    \/ \E r \in Reqs : SaveWrite(r)

SpecConc == InitConc /\ [][NextConc]_vars

----------------------------------------------------------------------------
(* Two deployments side by side: the same requests are served by the         *)
(* SQLAlchemy interface and by another interface with the same use_signer    *)
(* and permanent settings. One deployment is held in the variables of the    *)
(* model, the other in twin.state; one leads by a step, Swap exchanges them,  *)
(* the other follows with the same step, Swap exchanges them back             *)

\* the deployment held in the variables, as a record
Replica ==
    [cfg |-> cfg, store |-> store, now |-> now, nextSid |-> nextSid,
     known |-> known, pc |-> pc, sess |-> sess, found |-> found, jar |-> jar,
     last |-> last, gone |-> gone]

\* what the request told open_session: no cookie, a bad signature, or a sid
CookieKind(l) ==
    IF l.branch = "nocookie" THEN <<"none">>
    ELSE IF l.branch = "badsig" THEN <<"badsig">>
    ELSE <<"sid", l.csid>>

\* two steps are the same step of the same request
SameRequest(a, b) ==
    a.op = b.op /\ a.r = b.r /\ (a.op = "open" => CookieKind(a) = CookieKind(b))

\* both deployments have served the same steps
InSync == SameRequest(last, twin.state.last)

\* the deployment in the variables is to move: it leads, or it follows a step
PairTurn ==
    \/ twin.phase = "lead" /\ InSync
    \/ twin.phase = "mirror" /\ ~InSync

\* the step just taken is one without a store failure and, when following,
\* the step the other deployment took
PairStepOk ==
    /\ last'.branch \notin
          {"purge_error", "fetch_error", "delete_error", "write_error"}
    /\ twin.phase = "mirror" => SameRequest(last', twin.state.last)

Swap ==
    /\ \/ twin.phase = "lead" /\ ~InSync
       \/ twin.phase = "mirror" /\ InSync
    /\ cfg' = twin.state.cfg
    /\ store' = twin.state.store
    /\ now' = twin.state.now
    /\ nextSid' = twin.state.nextSid
    /\ known' = twin.state.known
    /\ pc' = twin.state.pc
    /\ sess' = twin.state.sess
    /\ found' = twin.state.found
    /\ jar' = twin.state.jar
    /\ last' = twin.state.last
    /\ gone' = twin.state.gone
    /\ twin' = [phase |-> IF twin.phase = "lead" THEN "mirror" ELSE "lead",
                state |-> Replica]
    /\ UNCHANGED <<web, mc>>

\* the reference deployment and the ones compared with it
PairConfigs == {c \in Configs : ~c.autodelete /\ c.utcoffset = 0}

InitPair ==
    /\ web = AppLoaded({}, <<>>)
    /\ cfg \in {c \in PairConfigs : c.backend = "sqlalchemy"}
    /\ store = [k \in StoreKeys |-> <<>>]
    /\ now = 0
    /\ nextSid = 1
    /\ known = {}
    /\ pc = [r \in Reqs |-> "idle"]
    /\ sess = [r \in Reqs |-> NoSession]
    /\ found = [r \in Reqs |-> FALSE]
    /\ jar = NoJar
    /\ last = Env("init", {})
    /\ gone = {}
    /\ mc = NoCalls
    /\ \E c \in PairConfigs :
        /\ c.backend # cfg.backend
        /\ c.use_signer = cfg.use_signer
        /\ c.permanent = cfg.permanent
        /\ twin = [phase |-> "lead", state |-> [Replica EXCEPT !.cfg = c]]

NextPair ==
    \/ \E r \in SeqReqs : PairTurn /\ Open(r) /\ PairStepOk
    \/ \E r \in SeqReqs : PairTurn /\ SetKey(r) /\ PairStepOk
    \/ \E r \in SeqReqs : PairTurn /\ PopKey(r) /\ PairStepOk
    \/ \E r \in SeqReqs : PairTurn /\ Clear(r) /\ PairStepOk
    \/ \E r \in SeqReqs : PairTurn /\ Save(r) /\ PairStepOk
    \/ Swap

SpecPair == InitPair /\ [][NextPair]_vars

----------------------------------------------------------------------------
(* A signing deployment started against a store that outlives it: the store  *)
(* holds the record of a session that an earlier run of the same deployment  *)
(* saved and whose signed cookie a client still has. The sid of that session *)
(* is the one sid outside the range of this run's counter                    *)

\* the session the earlier run saved
EarlierSession ==
    [NewSession({}, ForgedSid, cfg.permanent, RequestIp(ClientIp))
        EXCEPT !.data = MapSet(@, UserKey, ValOf(1)), !.modified = TRUE]

RestartConfigs == {c \in Configs : c.use_signer /\ c.utcoffset = 0}

InitRestart ==
    /\ twin = NoTwin
    /\ web = AppLoaded({}, <<>>)
    /\ gone = {}
    /\ mc = NoCalls
    /\ cfg \in RestartConfigs
    /\ now = 0
    /\ nextSid = 1
    /\ known = {ForgedSid}
    /\ pc = [r \in Reqs |-> "idle"]
    /\ sess = [r \in Reqs |-> NoSession]
    /\ found = [r \in Reqs |-> FALSE]
    /\ jar = NoJar
    /\ last = Env("init", {})
    /\ store = SaveSessionOn([k \in StoreKeys |-> <<>>], EarlierSession, "none").store

SpecRestart == InitRestart /\ [][Next]_vars

----------------------------------------------------------------------------
(* A signing deployment whose application has no secret key *)

NoSecretConfigs ==
    {c \in Settings : c.use_signer /\ ~c.secret /\ c.utcoffset = 0}

InitNoSecret == InitWith(NoSecretConfigs) /\ web = AppLoaded({}, <<>>)

SpecNoSecret == InitNoSecret /\ [][Next]_vars

----------------------------------------------------------------------------
(* The timeout of the memcached client: _get_memcache_timeout applied to     *)
(* timeouts on both sides of thirty days, at several readings of the clock   *)

\* the timeouts passed: total_seconds of a timedelta, whole seconds
Timeouts ==
    {0, 1, Lifetime, ThirtyDays - 1, ThirtyDays, ThirtyDays + 1, 2 * ThirtyDays}

\* the readings of int(time.time())
Epochs == {0, 1, ThirtyDays, MaxEpoch}

\* a faulty variant: thirty days itself is taken as a date
GetMemcacheTimeoutInclusive(timeout, epoch) ==
    IF timeout >= ThirtyDays THEN timeout + epoch ELSE timeout

\* MemcachedSessionInterface._get_memcache_timeout; epoch is int(time.time())
GetMemcacheTimeout(timeout, epoch) ==
    IF timeout > ThirtyDays THEN timeout + epoch ELSE timeout

\* a call of _get_memcache_timeout at the current reading of the clock
GetTimeout ==
    /\ Len(mc.calls) < MaxCalls
    /\ \E t \in Timeouts :
          mc' = [mc EXCEPT !.calls =
                    Append(@, [timeout |-> t,
                               ret |-> GetMemcacheTimeout(t, mc.epoch)])]
    /\ UNCHANGED <<cfg, store, now, nextSid, known, pc, sess, found, jar, last,
                   twin, web, gone>>

\* time.time() moves on; the calls made from now on read the new value
ClockTick ==
    /\ \E e \in Epochs : e > mc.epoch /\ mc' = [epoch |-> e, calls |-> <<>>]
    /\ UNCHANGED <<cfg, store, now, nextSid, known, pc, sess, found, jar, last,
                   twin, web, gone>>

\* the deployments that use the memcached interface
MemcachedConfigs == {c \in Configs : c.backend = "memcached"}

InitTimeout == InitWith(MemcachedConfigs) /\ web = AppLoaded({}, <<>>)

NextTimeout ==
    \/ GetTimeout
    \/ ClockTick

SpecTimeout == InitTimeout /\ [][NextTimeout]_vars

----------------------------------------------------------------------------
(* The application: requests to the routes of app.py over every content of   *)
(* the File and Insult tables                                                 *)

\* the SESSION_* settings of app.py
AppConfigs ==
    {c \in Configs : c.backend = "sqlalchemy" /\ c.permanent /\ ~c.use_signer
                        /\ ~c.autodelete}

InitApp ==
    /\ InitWith(AppConfigs)
    /\ \E files \in FileTables, rows \in InsultTables :
           web = AppLoaded(files, rows)

NextApp ==
    \/ GetIndex
    \/ GetAleatori
    \/ GetInsults
    \/ GetUnrouted
    \/ PostIndex

SpecApp == InitApp /\ [][NextApp]_vars

----------------------------------------------------------------------------
(* Properties *)

\* the branches in which a store operation raised because the store failed
InjectedErrors == {"purge_error", "fetch_error", "delete_error", "write_error"}

\* the session of the last step's request
LastSession == sess[last.r]

\* sid is newly generated: the latest the generator issued, not the client's
\* own, and no record is stored under it
Fresh(sid) == sid = nextSid - 1 /\ sid > ForgedSid /\ ~HasRow(store, sid)

\* C1: round trip. When a request carries exactly the cookie the last Save set
\* for a non-empty session, before Lifetime has passed and without a store
\* failure, Open returns a session with the same sid and the saved payload.
C1_RoundTrip ==
    (last.op = "open" /\ last.fromJar /\ now < jar.at + Lifetime
        /\ last.branch \notin InjectedErrors)
    => (last.ret = "session" /\ LastSession.sid = jar.sid
        /\ LastSession.data = jar.payload)

C3_BadSignatureAsNoCookie ==
    (last.op = "open" /\ last.branch = "badsig")
    => (last.ret = "session" /\ Fresh(LastSession.sid)
        /\ LastSession = NoCookieSession(LastSession.sid, ClientIp))

\* C4: a Save of an empty, modified session that returns leaves no record
\* under the session's sid and puts the cookie deletion on the response.
C4_SaveEmptiedDeletes ==
    [][\A r \in Reqs :
        (pc[r] = "handling" /\ sess[r].data = {} /\ sess[r].modified
            /\ last'.op = "save" /\ last'.r = r /\ last'.ret = "ok")
        => (~HasRow(store', sess[r].sid) /\ last'.resp = DeleteCookie)]_vars

C4_Witness ==
    last.op = "save" /\ last.branch = "delete" /\ last.sid \in last.changed
    /\ last.resp = DeleteCookie

\* C5: in every backend a Save of a session for which should_set_cookie is
\* false writes and deletes nothing and puts no cookie on the response.
C5_NoopWhenNoCookieNeeded ==
    [][\A r \in Reqs :
        (pc[r] = "handling" /\ ~ShouldSetCookie(sess[r])
            /\ last'.op = "save" /\ last'.r = r)
        => (store' = store /\ last'.resp = NoResp
            /\ last'.ops \cap {"write", "delete"} = {})]_vars

\* C6: a storage error while Open fetches the record, compares its expiry or
\* deletes it lazily is swallowed: Open returns an empty session.
C6_OpenSwallowsStorageErrors ==
    (last.op = "open"
        /\ last.branch \in {"fetch_error", "expiry_error", "delete_error"})
    => (last.ret = "session" /\ UserData(LastSession.data) = {})

C8_FailedWritePropagates ==
    [][(last'.op = "save" /\ last'.branch \in {"write_error", "write_refused"})
        => (last'.ret = "raised" /\ last'.resp = NoResp /\ store' = store
            /\ jar' = NoJar)]_vars

C8_Witness ==
    last.op = "save" /\ last.branch = "write_error" /\ last.ret = "raised"

\* C9: in the SQLAlchemy store every session id has at most one record, in
\* every state of every interleaving of two requests.
C9_AtMostOneRecord ==
    cfg.backend = "sqlalchemy" => \A k \in StoreKeys : Len(store[k]) <= 1

C9_Witness ==
    cfg.backend = "sqlalchemy" /\ last.op = "save" /\ last.branch = "write_refused"

\* C10: when two requests hold the same sid and both save a non-empty session,
\* each Save completes without error and leaves its payload as the record,
\* also when no record existed before either Save.
C10_LastWriteWins ==
    [][\A r \in Reqs :
        (pc[r] = "saving" /\ sess[r].data # {} /\ ~GetExpireRaises(sess[r])
            /\ ~(found[r] /\ ~HasRow(store, sess[r].sid))
            /\ last'.op = "save" /\ last'.r = r
            /\ last'.branch \notin InjectedErrors)
        => (/\ last'.ret = "ok"
            /\ HasRow(store', sess[r].sid)
            /\ First(store', sess[r].sid).data =
                  Dumps(SerializerOf(cfg.backend), sess[r].data))]_vars

\* the payload stored under sid: the data of its records, none if there is none
StoredPayload(st, sid) == [i \in DOMAIN st[StoreKey(sid)] |-> st[StoreKey(sid)][i].data]

\* C11: idempotence. When a Save of an unmodified session that has a record
\* returns, a second Save of the same session right after it leaves the stored
\* payload as the first Save left it.
C11_SaveTwiceSamePayload ==
    [][\A r \in Reqs :
        (pc[r] = "handling" /\ ~sess[r].modified /\ HasRow(store, sess[r].sid)
            /\ last'.op = "save" /\ last'.r = r /\ last'.ret = "ok")
        => StoredPayload(SaveSessionOn(store', sess[r], "none").store, sess[r].sid)
            = StoredPayload(store', sess[r].sid)]_vars

C11_Witness ==
    last.op = "save" /\ ~last.modified /\ last.branch = "written"
    /\ last.changed = {} /\ HasRow(store, last.sid)
\* C12: in the backends that store an expiry, Open on an accepted cookie whose
\* record carries an expiry and loads: with expiry <= now it deletes the record
\* and returns a session with the same sid and no data of the record; with
\* expiry > now it returns the record's payload.
C12_ExpiryDecidesLoad ==
    [][\A r \in Reqs : \A sid \in AllSids :
        LET st1 == IF Autodeletes THEN PurgeExpired(store, now) ELSE store
            fmt == SerializerOf(cfg.backend)
        IN
        (pc[r] = "idle" /\ cfg.backend \in ExpiryBackends
            /\ last'.op = "open" /\ last'.r = r /\ last'.csid = sid
            /\ last'.branch \notin InjectedErrors
            /\ HasRow(st1, sid)
            /\ First(st1, sid).expiry # NoExpiry
            /\ LoadsOk(fmt, First(st1, sid).data))
        => (/\ last'.ret = "session"
            /\ sess'[r].sid = sid
            /\ IF First(st1, sid).expiry <= now
               THEN UserData(sess'[r].data) = {} /\ ~HasRow(store', sid)
               ELSE sess'[r].data = Loads(fmt, First(st1, sid).data)
                    /\ store'[StoreKey(sid)] = st1[StoreKey(sid)])]_vars
\* C13: every Save that returns and took neither the no-op nor the delete
\* branch leaves under the session's sid a record holding the serialized
\* mapping and an expiry of the time of the Save plus Lifetime.
C13_SaveWritesWithExpiry ==
    [][\A r \in Reqs :
        (pc[r] = "handling" /\ last'.op = "save" /\ last'.r = r
            /\ last'.ret = "ok" /\ last'.branch \notin {"noop", "empty", "delete"})
        => (/\ HasRow(store', sess[r].sid)
            /\ First(store', sess[r].sid).data =
                  Dumps(SerializerOf(cfg.backend), sess[r].data)
            /\ First(store', sess[r].sid).expiry = now + Lifetime)]_vars
\* C14: a Save of a non-empty permanent session that returns leaves the record
\* with expiry = time of the Save + Lifetime; and an Open on the cookie that
\* Save set, the session not saved since, loads the payload when less than
\* Lifetime has passed and finds the session expired when Lifetime has passed.
C14_SaveRefreshesExpiry ==
    [][\A r \in Reqs :
        /\ (pc[r] = "handling" /\ sess[r].data # {} /\ IsPermanent(sess[r].data)
                /\ last'.op = "save" /\ last'.r = r /\ last'.ret = "ok")
            => (HasRow(store', sess[r].sid)
                /\ First(store', sess[r].sid).expiry = now + Lifetime)
        /\ (pc[r] = "idle" /\ jar # NoJar /\ IsPermanent(jar.payload)
                /\ last'.op = "open" /\ last'.r = r /\ last'.fromJar
                /\ last'.branch \notin InjectedErrors)
            => (/\ last'.ret = "session"
                /\ IF now < jar.at + Lifetime
                   THEN sess'[r].data = jar.payload
                   ELSE UserData(sess'[r].data) = {})]_vars
\* the two steps had the same outcome for the client and the handler: both
\* returned or both raised, with the same cookie instruction on the response
\* and, after Open, the same payload in the session
SameOutcome ==
    /\ last.ret = twin.state.last.ret
    /\ last.resp.kind = twin.state.last.resp.kind
    /\ last.op = "open" =>
          \A r \in SeqReqs : sess[r].data = twin.state.sess[r].data

\* C15: served the same requests, every interface gives the handler the same
\* loaded payloads and the response the same cookie instructions as the
\* SQLAlchemy interface with the same settings.
C15_SameContract ==
    (twin.phase = "mirror" /\ InSync) => SameOutcome
\* the cached File rows and whether the last request was GET /insults
CachedRows == {f \in web.File : f.name = "insults.json"}
AskedInsults == web.req = "/insults"

\* C16: every request served by a route of app.py went through the
\* SQLAlchemy session interface that Session(app) installed: the application
\* object that has the routes is the one that has that interface.
C16_RoutesBehindSessionInterface ==
    web.req \in {"/", "/aleatori", "/insults"} =>
        /\ web.via = "sqlalchemy"
        /\ \E a \in 1..Len(web.apps) :
              web.apps[a].iface = "sqlalchemy" /\ web.req \in web.apps[a].routes

C18_OneObjectPerRow ==
    (AskedInsults /\ CachedRows = {}) =>
        /\ web.resp.kind = "json"
        /\ Len(web.resp.body) = Len(web.Insult)
        /\ \A i \in 1..Len(web.Insult) :
              /\ web.resp.body[i].paraula = web.Insult[i].insult
              /\ web.resp.body[i].definicio = web.Insult[i].definition
              /\ web.resp.body[i].font =
                     [nom |-> web.Insult[i].sourceName,
                      url |-> web.Insult[i].sourceUrl]

\* C19: for every stored tags value, the empty string and NULL included, the
\* request succeeds and the tags array of each object is the stored field cut
\* at every comma, so that joining it with commas gives the stored field back.
C19_TagsSplitRoundTrip ==
    (AskedInsults /\ CachedRows = {}) =>
        /\ web.resp.kind = "json"
        /\ \A i \in 1..Len(web.Insult) :
              /\ ~web.Insult[i].tags.null =>
                    Join(web.resp.body[i].tags) = web.Insult[i].tags.val
              /\ \A j \in 1..Len(web.resp.body[i].tags) :
                    \A k \in 1..Len(web.resp.body[i].tags[j]) :
                        web.resp.body[i].tags[j][k] # ","

\* C20: a GET /insults that built the array from the Insult rows has written
\* it as the File row "insults.json", from which later requests are served.
C20_ArrayMemoized ==
    (AskedInsults /\ web.resp.kind = "json") =>
        \E f \in web.File : f.name = "insults.json"
\* C21: an HTTP exception with status code c raised while a request is
\* handled is answered by the error handler with status c and with the error
\* page rendered with the decimal string of c.
C21_ErrorPageEchoesStatus ==
    /\ web.req = "/unrouted" =>
          /\ web.resp.status = 404
          /\ web.resp.body = <<"404.html", <<"4", "0", "4">>>>
    /\ web.req = "POST /" =>
          /\ web.resp.status = 405
          /\ web.resp.body = <<"404.html", <<"4", "0", "5">>>>

C21_Witness ==
    web.req = "POST /" /\ web.resp.kind = "html" /\ web.resp.status = 405
\* C22: right after open_session returned a session, whatever the path (new
\* sid, bad signature, record loaded, record expired, record that does not
\* load) and also where the constructor stored the permanence marker, the
\* session's modified flag is false; after a set, a pop or a clear of the
\* mapping it is true.
C22_ModifiedFlag ==
    /\ (last.op = "open" /\ last.ret = "session") => ~sess[last.r].modified
    /\ last.op \in {"set", "pop", "clear"} => sess[last.r].modified

C22_Witness ==
    /\ last.op = "open"
    /\ last.branch = "corrupt"
    /\ IsPermanent(sess[last.r].data)
    /\ ~sess[last.r].modified
\* C23: once save_session has deleted the record of a sid (the session was
\* emptied and modified), an open_session with a cookie for that sid returns
\* a session without a payload, until a save_session writes a record for the
\* sid again.
C23_DeletedPayloadNotLoaded ==
    (last.op = "open" /\ last.csid \in gone /\ last.ret = "session") =>
        UserData(sess[last.r].data) = {}

C23_Witness ==
    /\ last.op = "open"
    /\ last.csid \in gone
    /\ last.ret = "session"
    /\ UserData(sess[last.r].data) = {}
\* the records of st whose expiry is strictly before t
StaleRows(st, t) ==
    {<<k, i>> \in StoreKeys \X (1..2) :
        i <= Len(st[k]) /\ st[k][i].expiry # NoExpiry /\ st[k][i].expiry < t}

\* C24: in the SQLAlchemy interface with autodelete, every open_session (no
\* cookie, cookie with a good or a bad signature) that the store does not fail
\* leaves no record whose expiry is strictly before now; without autodelete
\* open_session leaves every record alone but, at most, the one record it
\* looked up, which it may delete.
C24_AutodeletePurges ==
    [][\A r \in Reqs :
        (/\ pc[r] = "idle"
         /\ last'.op = "open" /\ last'.r = r
         /\ cfg.backend = "sqlalchemy"
         /\ last'.branch \notin InjectedErrors)
        => IF cfg.autodelete
           THEN StaleRows(store', now) = {}
           ELSE /\ \A s \in AllSids \ {last'.csid} :
                      store'[StoreKey(s)] = store[StoreKey(s)]
                /\ last'.csid \in AllSids =>
                      \/ store'[StoreKey(last'.csid)] = store[StoreKey(last'.csid)]
                      \/ store'[StoreKey(last'.csid)] =
                             Tail(store[StoreKey(last'.csid)])]_vars

C24_Witness ==
    /\ last.op = "open"
    /\ cfg.backend = "sqlalchemy" /\ cfg.autodelete
    /\ last.csid = -1
    /\ last.ret = "session"
    /\ last.changed # {}
    /\ now > Lifetime
\* C25: an open_session whose cookie carries an accepted sid (unsigned, or
\* with a verified signature) that has no record returns an empty session
\* with that same sid and generates no sid; so, where the interface does not
\* sign, a save_session that writes such a session stores the record under
\* the key the client chose.
C25_ClientSidKept ==
    [][\A r \in Reqs :
        /\ (/\ pc[r] = "idle"
            /\ last'.op = "open" /\ last'.r = r
            /\ last'.branch = "norecord")
           => /\ sess'[r].sid = last'.csid
              /\ UserData(sess'[r].data) = {}
              /\ nextSid' = nextSid
        /\ (/\ pc[r] = "handling"
            /\ last'.op = "save" /\ last'.r = r
            /\ last'.branch = "written"
            /\ ~cfg.use_signer
            /\ sess[r].sid = ForgedSid)
           => /\ HasRow(store', ForgedSid)
              /\ First(store', ForgedSid).data =
                     Dumps(SerializerOf(cfg.backend), sess[r].data)]_vars

C25_Witness ==
    /\ last.op = "save"
    /\ last.branch = "written"
    /\ last.sid = ForgedSid
    /\ ~cfg.use_signer
    /\ ForgedSid \in last.changed
    /\ HasRow(store, ForgedSid)
\* the cookie values whose signature does not verify: a bare sid, or a sid
\* with a signature other than the signer's
BadlySigned ==
    {<<s>> : s \in AllSids}
    \cup UNION {{<<s, m>> : m \in (0..(MacMod - 1)) \ {Mac(s)}} : s \in AllSids}

C28_EmptyUnmodifiedSaveIsInert ==
    [][\A r \in Reqs :
        (/\ pc[r] = "handling"
         /\ last'.op = "save" /\ last'.r = r
         /\ sess[r].data = {} /\ ~sess[r].modified)
        => /\ store' = store
           /\ last'.ops \cap {"write", "delete"} = {}
           /\ last'.resp.kind = "none"
           /\ jar' = NoJar]_vars

C28_Witness ==
    /\ last.op = "save"
    /\ last.branch = "empty"
    /\ cfg.backend = "dynamodb"
    /\ ~last.modified
    /\ last.resp.kind = "none"
\* C29: in the SQLAlchemy interface a save_session of a non-empty session
\* that is not permanent (no expiration time) stores the record with a null
\* expiry, and an open_session that finds a record with a null expiry deletes
\* it and returns an empty session: the payload is not loaded back.
C29_NullExpiryNeverLoaded ==
    [][\A r \in Reqs :
        /\ (/\ cfg.backend = "sqlalchemy"
            /\ pc[r] = "handling"
            /\ last'.op = "save" /\ last'.r = r
            /\ last'.branch = "written"
            /\ ~IsPermanent(sess[r].data))
           => /\ HasRow(store', sess[r].sid)
              /\ First(store', sess[r].sid).expiry = NoExpiry
              /\ First(store', sess[r].sid).data = Dumps("pickle", sess[r].data)
        /\ (/\ cfg.backend = "sqlalchemy"
            /\ pc[r] = "idle"
            /\ last'.op = "open" /\ last'.r = r
            /\ last'.csid \in AllSids
            /\ last'.branch \notin InjectedErrors
            /\ HasRow(store, last'.csid)
            /\ First(store, last'.csid).expiry = NoExpiry)
           => /\ last'.branch = "expired"
              /\ ~HasRow(store', last'.csid)
              /\ sess'[r].sid = last'.csid
              /\ UserData(sess'[r].data) = {}]_vars

C29_Witness ==
    /\ cfg.backend = "sqlalchemy"
    /\ last.op = "open"
    /\ last.branch = "expired"
    /\ last.fromJar
    /\ now = 0
    /\ UserData(jar.payload) # {}
    /\ UserData(sess[last.r].data) = {}
\* C30: in the Redis interface a save_session of a non-empty session that
\* gets past should_set_cookie writes the record if and only if the session
\* is permanent and sets the cookie either way; so after the save of a session
\* that is not permanent the store has no record under the sid the cookie
\* names.
C30_RedisCookieWithoutRecord ==
    [][\A r \in Reqs :
        (/\ cfg.backend = "redis"
         /\ pc[r] = "handling"
         /\ last'.op = "save" /\ last'.r = r
         /\ last'.ret = "ok"
         /\ sess[r].data # {}
         /\ ShouldSetCookie(sess[r]))
        => /\ ("write" \in last'.ops) <=> IsPermanent(sess[r].data)
           /\ last'.resp.kind = "set"
           /\ last'.resp.value = CookieFor(sess[r].sid)
           /\ ~IsPermanent(sess[r].data) => ~HasRow(store', sess[r].sid)]_vars
C32_DatastoreAbsentExpiry ==
    [][\A r \in Reqs :
        (/\ cfg.backend = "datastore"
         /\ pc[r] = "handling"
         /\ last'.op = "save" /\ last'.r = r
         /\ last'.branch \notin InjectedErrors
         /\ sess[r].data # {}
         /\ ExpirationTime(sess[r], now) = NoExpiry)
        => /\ last'.ret = "ok"
           /\ \A k \in AllSids \ {sess[r].sid} :
                 store'[StoreKey(k)] = store[StoreKey(k)]
           /\ IF HasRow(store, sess[r].sid)
              THEN /\ ~HasRow(store', sess[r].sid)
                   /\ last'.ops = {"fetch", "delete"}
                   /\ last'.resp.kind = "none"
                   /\ jar' = NoJar
                   /\ known' = known
              ELSE /\ HasRow(store', sess[r].sid)
                   /\ First(store', sess[r].sid).expiry = NoExpiry
                   /\ First(store', sess[r].sid).data =
                          Dumps(SerializerOf(cfg.backend), sess[r].data)
                   /\ last'.ops = {"fetch", "write"}
                   /\ last'.resp.kind = "set"
                   /\ last'.resp.value = CookieFor(sess[r].sid)
                   /\ last'.resp.expires = NoExpiry]_vars

C32_Witness ==
    /\ cfg.backend = "datastore"
    /\ last.op = "save"
    /\ last.branch = "dropped"
    /\ last.ret = "ok"
    /\ last.ops = {"fetch", "delete"}
    /\ last.changed = {last.sid}
    /\ ~HasRow(store, last.sid)
    /\ last.resp.kind = "none"
\* C33: _get_memcache_timeout returns its argument unchanged for every
\* timeout of at most 2592000 seconds and the argument plus the current epoch
\* seconds for every longer one, so at one reading of the clock a longer
\* timeout gives a strictly greater result.
C33_MemcacheTimeout ==
    /\ \A i \in 1..Len(mc.calls) :
          mc.calls[i].ret = IF mc.calls[i].timeout <= 2592000
                            THEN mc.calls[i].timeout
                            ELSE mc.calls[i].timeout + mc.epoch
    /\ \A i, j \in 1..Len(mc.calls) :
          mc.calls[i].timeout < mc.calls[j].timeout
              => mc.calls[i].ret < mc.calls[j].ret

C33_Witness ==
    /\ mc.epoch = MaxEpoch
    /\ Len(mc.calls) = 2
    /\ mc.calls[1].timeout = 2592000
    /\ mc.calls[1].ret = 2592000
    /\ mc.calls[2].timeout = 2592001
    /\ mc.calls[2].ret = 2592001 + MaxEpoch
====
